---------------------------- MODULE Spec2Model ----------------------------
(*************************************************************************)
(* Model of src/server.js: a Node.js HTTP backend that serves a static   *)
(* contact page and stores contact-form submissions in PostgreSQL.       *)
(*                                                                       *)
(* Text is modelled as sequences of characters, a request body as a      *)
(* sequence of JSON tokens (so that chunking, blank checks and parsing   *)
(* are computed, not assumed), a URL as a sequence of path tokens.       *)
(*************************************************************************)
EXTENDS Integers, Sequences, FiniteSets, TLC

(*************************************************************************)
(* Bounds of the model.                                                  *)
(*************************************************************************)
MaxReq == 2        \* concurrent requests in SpecConc
MaxAttempts == 3   \* listen() calls followed per process start
MaxStarts == 2     \* process starts against the same database

(*************************************************************************)
(* Strings: String.prototype.trim, toLowerCase, the e-mail regex.        *)
(*************************************************************************)
WsChars == {" ", "\n"}

IsWs(c) == c \in WsChars

RECURSIVE TrimStart(_)
TrimStart(s) ==
  IF s # <<>> /\ IsWs(Head(s)) THEN TrimStart(Tail(s)) ELSE s

RECURSIVE TrimEnd(_)
TrimEnd(s) ==
  IF s # <<>> /\ IsWs(s[Len(s)]) THEN TrimEnd(SubSeq(s, 1, Len(s) - 1)) ELSE s

Trim(s) == TrimEnd(TrimStart(s))

LowerChar(c) ==
  CASE c = "A" -> "a"
    [] c = "B" -> "b"
    [] c = "C" -> "c"
    [] OTHER -> c

ToLowerCase(s) == [i \in 1..Len(s) |-> LowerChar(s[i])]

\* the regex without its dot: /^[^\s@]+@[^\s@]+$/
EmailRegexTest_m(s) ==
  \E i \in 1..Len(s) :
     /\ s[i] = "@"
     /\ 1 < i /\ i < Len(s)
     /\ \A k \in (1..Len(s)) \ {i} : ~IsWs(s[k]) /\ s[k] # "@"

\* /^[^\s@]+@[^\s@]+\.[^\s@]+$/ : i is the position of the "@", j of the
\* dot that separates the last two groups; every other character is
\* neither whitespace nor "@".
EmailRegexTest(s) ==
  \E i \in 1..Len(s) : \E j \in 1..Len(s) :
     /\ s[i] = "@" /\ s[j] = "."
     /\ 1 < i /\ i + 1 < j /\ j < Len(s)
     /\ \A k \in (1..Len(s)) \ {i} : ~IsWs(s[k]) /\ s[k] # "@"

(*************************************************************************)
(* JavaScript values as they come out of JSON.parse.  A scalar is a      *)
(* record [t, s]: t its type, s its characters (strings and numbers).    *)
(*************************************************************************)
Undefined == [t |-> "undefined", s |-> <<>>]
Null == [t |-> "null", s |-> <<>>]
Str(s) == [t |-> "str", s |-> s]
Num(s) == [t |-> "num", s |-> s]
Bool(s) == [t |-> "bool", s |-> s]
Arr == [t |-> "arr", s |-> <<>>]

(*************************************************************************)
(* Request bodies as token sequences, and JSON.parse over them.          *)
(*************************************************************************)
Punct(k) == [k |-> k, s |-> <<>>]
WsTok == Punct("ws")
ValTok(v) == [k |-> v.t, s |-> v.s]

IsValueTok(tok) == tok.k \in {"str", "num", "null", "bool", "arr"}

MemberToks(doc, key) ==
  IF doc[key].t = "undefined" THEN <<>>
  ELSE << Punct(","), ValTok(Str(<<key>>)), Punct(":"), ValTok(doc[key]) >>

\* The text a client sends for the object doc: {"name":..,"email":..,...}
Serialize(doc) ==
  LET ms == MemberToks(doc, "name") \o MemberToks(doc, "email")
            \o MemberToks(doc, "phone") \o MemberToks(doc, "message")
  IN  << Punct("{") >> \o (IF ms = <<>> THEN <<>> ELSE Tail(ms)) \o << Punct("}") >>

NoFields == [x \in {} |-> Undefined]

SyntaxError == [ok |-> FALSE, t |-> "undefined", s |-> <<>>, f |-> NoFields]

RECURSIVE ParseMembers(_)
ParseMembers(toks) ==
  IF Len(toks) >= 3 /\ toks[1].k = "str" /\ toks[2].k = ":" /\ IsValueTok(toks[3])
  THEN LET key == toks[1].s[1]
           val == [t |-> toks[3].k, s |-> toks[3].s]
       IN  IF Len(toks) = 3 THEN [ok |-> TRUE, f |-> (key :> val)]
           ELSE IF Len(toks) > 4 /\ toks[4].k = ","
           THEN LET rest == ParseMembers(SubSeq(toks, 5, Len(toks)))
                IN  IF rest.ok THEN [ok |-> TRUE, f |-> rest.f @@ (key :> val)]
                    ELSE [ok |-> FALSE, f |-> NoFields]
           ELSE [ok |-> FALSE, f |-> NoFields]
  ELSE [ok |-> FALSE, f |-> NoFields]

JSONParse(text) ==
  LET toks == SelectSeq(text, LAMBDA tok : tok.k # "ws")
      n == Len(toks)
  IN  IF n = 1 /\ IsValueTok(toks[1])
      THEN [ok |-> TRUE, t |-> toks[1].k, s |-> toks[1].s, f |-> NoFields]
      ELSE IF n >= 2 /\ toks[1].k = "{" /\ toks[n].k = "}"
      THEN IF n = 2 THEN [ok |-> TRUE, t |-> "obj", s |-> <<>>, f |-> NoFields]
           ELSE LET m == ParseMembers(SubSeq(toks, 2, n - 1))
                IN  IF m.ok THEN [ok |-> TRUE, t |-> "obj", s |-> <<>>, f |-> m.f]
                    ELSE SyntaxError
      ELSE SyntaxError

\* !body.trim() : the body holds nothing but whitespace
IsBlankBody(text) == \A i \in 1..Len(text) : text[i].k = "ws"

\* const { name, email, phone, message } = data (data is not null)
Field(data, key) ==
  IF data.t = "obj" /\ key \in DOMAIN data.f THEN data.f[key] ELSE Undefined


(*************************************************************************)
(* The submission handler's synchronous part (the 'end' callback up to   *)
(* the call of saveContact).  A decision is either one reply or the      *)
(* arguments handed to saveContact.                                      *)
(*************************************************************************)
MsgNoData == "No data received. Please try again."
MsgRequired == "Name, email, and message are required fields."
MsgEmail == "Please enter a valid email address."
MsgServer == "Server error. Please try again later."
MsgSaved == "Thank you! Your message has been sent successfully."
MsgDupEmail == "This email address has already been used. Please use a different email."
MsgDupPhone == "This phone number has already been used. Please use a different number."
MsgGeneric == "Something went wrong while saving your contact. Please try again later."
MsgNotFound == "Page not found"
MsgNoFile == "File not found"

NoArgs == [name |-> <<>>, email |-> <<>>, phone |-> Null, message |-> <<>>]

JsonReply(status, result, message) ==
  [kind |-> "reply", status |-> status, ctype |-> "application/json",
   result |-> result, message |-> message, id |-> 0, args |-> NoArgs]

CallSave(args) ==
  [kind |-> "save", status |-> 0, ctype |-> "", result |-> "", message |-> "",
   id |-> 0, args |-> args]

\* catch (error) of the 'end' callback
Caught == JsonReply(500, "error", MsgServer)

\* v?.trim() throws a TypeError when v is neither nullish nor a string
OptTrimThrows(v) == v.t \notin {"undefined", "null", "str"}

\* !v?.trim()  (for a v on which it does not throw)
NotOptTrim(v) == v.t \in {"undefined", "null"} \/ Trim(v.s) = <<>>

\* !name || !email || !message : presence without the trim
RequiredCheck_m(name, email, message) ==
  IF OptTrimThrows(name) \/ OptTrimThrows(email) \/ OptTrimThrows(message)
  THEN "throw"
  ELSE IF \E v \in {name, email, message} : v.t \in {"undefined", "null"} \/ v.s = <<>>
  THEN "missing"
  ELSE "ok"

\* !name?.trim() || !email?.trim() || !message?.trim(), left to right with
\* short circuit: "throw", "missing" or "ok"
RequiredCheck(name, email, message) ==
  IF OptTrimThrows(name) THEN "throw"
  ELSE IF NotOptTrim(name) THEN "missing"
  ELSE IF OptTrimThrows(email) THEN "throw"
  ELSE IF NotOptTrim(email) THEN "missing"
  ELSE IF OptTrimThrows(message) THEN "throw"
  ELSE IF NotOptTrim(message) THEN "missing"
  ELSE "ok"

\* phone?.trim() || null
PhoneArg(phone) ==
  IF phone.t = "str" /\ Trim(phone.s) # <<>> THEN Str(Trim(phone.s)) ELSE Null

SaveArgs(name, email, phone, message) ==
  [name |-> Trim(name.s), email |-> ToLowerCase(Trim(email.s)),
   phone |-> PhoneArg(phone), message |-> Trim(message.s)]

\* lines 244-271: required fields, e-mail shape, then the saveContact call
Validate(name, email, phone, message) ==
  LET req == RequiredCheck(name, email, message)
  IN  IF req = "throw" THEN Caught
      ELSE IF req = "missing" THEN JsonReply(400, "error", MsgRequired)
      ELSE IF ~EmailRegexTest(email.s) THEN JsonReply(400, "error", MsgEmail)
      ELSE IF OptTrimThrows(phone) THEN Caught
      ELSE CallSave(SaveArgs(name, email, phone, message))

\* lines 227-284 up to the await
SubmitDecision(body) ==
  IF IsBlankBody(body) THEN JsonReply(400, "error", MsgNoData)
  ELSE LET data == JSONParse(body)
       IN  IF ~data.ok THEN Caught
           ELSE IF data.t = "null" THEN Caught
           ELSE Validate(Field(data, "name"), Field(data, "email"),
                         Field(data, "phone"), Field(data, "message"))

(*************************************************************************)
(* saveContact: the store's answer to the INSERT mapped to a result.     *)
(* An answer is [ok, id, code, constraint, text]; a constraint name is   *)
(* a sequence of words and includes() looks for a word in it.            *)
(*************************************************************************)
UniqueViolation == "23505"
RawDbText == "duplicate key value violates unique constraint"

Includes(constraint, word) == \E i \in 1..Len(constraint) : constraint[i] = word

Result(result, message, id) ==
  [result |-> result, message |-> message, id |-> id]

\* saveContact handing the caught error's own text to the caller
saveContact_m(answer) ==
  IF answer.ok THEN Result("success", MsgSaved, answer.id)
  ELSE IF answer.code = UniqueViolation /\ answer.hasConstraint
          /\ Includes(answer.constraint, "email")
  THEN Result("error", MsgDupEmail, 0)
  ELSE IF answer.code = UniqueViolation /\ answer.hasConstraint
          /\ Includes(answer.constraint, "phone")
  THEN Result("error", MsgDupPhone, 0)
  ELSE Result("error", answer.text, 0)

\* lines 133-161: the result for each answer; it has no path that throws
saveContact(answer) ==
  IF answer.ok THEN Result("success", MsgSaved, answer.id)
  ELSE IF answer.code = UniqueViolation /\ answer.hasConstraint
          /\ Includes(answer.constraint, "email")
  THEN Result("error", MsgDupEmail, 0)
  ELSE IF answer.code = UniqueViolation /\ answer.hasConstraint
          /\ Includes(answer.constraint, "phone")
  THEN Result("error", MsgDupPhone, 0)
  ELSE Result("error", MsgGeneric, 0)

\* lines 273-275: the result forwarded with HTTP 200
Forward(r) ==
  [kind |-> "reply", status |-> 200, ctype |-> "application/json",
   result |-> r.result, message |-> r.message, id |-> r.id, args |-> NoArgs]

(*************************************************************************)
(* The router: method and URL to a branch.  A URL is a sequence of path  *)
(* tokens, "/" being one of them.                                        *)
(*************************************************************************)
StartsWith(url, prefix) ==
  Len(url) >= Len(prefix) /\ SubSeq(url, 1, Len(prefix)) = prefix

UrlRoot == << "/" >>
UrlSubmit == << "/", "submit-contact" >>

\* path.extname(filePath).toLowerCase() mapped to a content type; the last
\* token of the URL carries the extension after its last dot
ImageType(ext) ==
  CASE ext = ".png" -> "image/png"
    [] ext \in {".jpg", ".jpeg"} -> "image/jpeg"
    [] ext = ".gif" -> "image/gif"
    [] ext = ".svg" -> "image/svg+xml"
    [] OTHER -> "application/octet-stream"

\* the router with the method test of its "/" rule left out
Route_m(method, url) ==
  IF method = "OPTIONS" THEN "preflight"
  ELSE IF url = UrlRoot THEN "page"
  ELSE IF method = "GET" /\ StartsWith(url, << "/", "css", "/" >>) THEN "css"
  ELSE IF method = "GET" /\ StartsWith(url, << "/", "js", "/" >>) THEN "js"
  ELSE IF method = "GET" /\ StartsWith(url, << "/", "images", "/" >>) THEN "image"
  ELSE IF method = "POST" /\ url = UrlSubmit THEN "submit"
  ELSE "notfound"

\* lines 175-294: the first rule that matches
Route(method, url) ==
  IF method = "OPTIONS" THEN "preflight"
  ELSE IF method = "GET" /\ url = UrlRoot THEN "page"
  ELSE IF method = "GET" /\ StartsWith(url, << "/", "css", "/" >>) THEN "css"
  ELSE IF method = "GET" /\ StartsWith(url, << "/", "js", "/" >>) THEN "js"
  ELSE IF method = "GET" /\ StartsWith(url, << "/", "images", "/" >>) THEN "image"
  ELSE IF method = "POST" /\ url = UrlSubmit THEN "submit"
  ELSE "notfound"

CorsHeaders ==
  { "Access-Control-Allow-Origin", "Access-Control-Allow-Methods",
    "Access-Control-Allow-Headers" }

DotTokens == { ".png", ".jpg", ".jpeg", ".gif", ".svg", ".css", ".js", ".bin" }

\* path.extname: the last token when it is an extension
ExtName(url) ==
  IF url # <<>> /\ url[Len(url)] \in DotTokens THEN url[Len(url)] ELSE ""

\* the content type handed to serveStaticFile by each static branch
StaticType(branch, url) ==
  CASE branch = "page" -> "text/html"
    [] branch = "css" -> "text/css"
    [] branch = "js" -> "application/javascript"
    [] OTHER -> ImageType(ExtName(url))

(*************************************************************************)
(* State.                                                                *)
(*************************************************************************)
VARIABLES
  \* ---- the HTTP side, per request id
  input,       \* what the client sends: [method, url, text]
  st,          \* "new", "reading", "file", "saving", "done"
  unsent,      \* body tokens the client has not delivered yet
  body,        \* the handler's `body` accumulator, per closure
  seen,        \* the body the 'end' callback logged and processed
  res,         \* the response object: [headers, writes]
  saving,      \* the arguments of the pending saveContact call
  inserts,     \* INSERT statements issued for the request
  saveLog,     \* what saveContact logged of the store's answer (lines 133, 141)
  \* ---- the store
  rows,        \* the contacts table's rows, in insertion order
  nextId,      \* the SERIAL sequence behind contacts.id
  schema,      \* [cols, idx]: the table's columns (<<>>: no table), indexes
  \* ---- the process
  env,         \* [dbUrl, port]: DATABASE_URL set, PORT
  pc,          \* where startServer is
  existing,    \* createTable's existingColumns
  probeRuns,   \* completed calls of testConnection in this process
  probeLog,    \* what testConnection logged: "", "connected" or "failed"
  initRuns,    \* completed calls of createTable in this process
  listenCalls, \* the ports handed to server.listen(), in order
  bindErrors,  \* the error codes the listener emitted, in order
  exitCode,    \* -1 while the process lives, else its exit code
  \* ---- across process starts
  starts,      \* process starts so far
  faulted,     \* the store failed some statement for a reason of its own
  schemaAfter  \* the schema at the end of each createTable run

httpVars == << input, st, unsent, body, seen, res, saving, inserts, saveLog, rows,
              nextId >>
procVars == << schema, env, pc, existing, probeRuns, probeLog, initRuns, listenCalls,
               bindErrors, exitCode, starts, faulted, schemaAfter >>
vars == << input, st, unsent, body, seen, res, saving, inserts, saveLog, rows, nextId,
           schema, env, pc, existing, probeRuns, probeLog, initRuns, listenCalls,
           bindErrors, exitCode, starts, faulted, schemaAfter >>

Reqs == DOMAIN input

(*************************************************************************)
(* The request handler.                                                  *)
(*************************************************************************)
\* `body` declared once for the module instead of once per request
BodySlot_m(r) == 1

\* the closure variable `body` of a request (let body = '' at line 220)

BodySlot(r) == r

\* res.setHeader x3 at lines 170-172
SetCorsHeaders(branch) == CorsHeaders

\* res.writeHead(status, {Content-Type}) followed by res.end(...): the
\* headers set before are merged with those of writeHead
Write(r, reply) ==
  [res EXCEPT ![r].writes = Append(@,
     [status |-> reply.status, ctype |-> reply.ctype, result |-> reply.result,
      message |-> reply.message, id |-> reply.id,
      headers |-> res[r].headers \cup
                  (IF reply.ctype = "" THEN {} ELSE {"Content-Type"})])]

PlainReply(status, ctype, message) ==
  [kind |-> "reply", status |-> status, ctype |-> ctype, result |-> "",
   message |-> message, id |-> 0, args |-> NoArgs]

\* requestHandler up to its first return (lines 166-295)
Arrive(r) ==
  /\ pc = "serving"
  /\ st[r] = "new"
  /\ LET branch == Route(input[r].method, input[r].url)
         res1 == [res EXCEPT ![r].headers = SetCorsHeaders(branch)]
     IN  CASE branch = "preflight" ->
                /\ res' = [res1 EXCEPT ![r].writes = Append(@,
                            [status |-> 200, ctype |-> "", result |-> "",
                             message |-> "", id |-> 0, headers |-> res1[r].headers])]
                /\ st' = [st EXCEPT ![r] = "done"]
                /\ body' = body
           [] branch = "notfound" ->
                /\ res' = [res1 EXCEPT ![r].writes = Append(@,
                            [status |-> 404, ctype |-> "application/json",
                             result |-> "error", message |-> MsgNotFound, id |-> 0,
                             headers |-> res1[r].headers \cup {"Content-Type"}])]
                /\ st' = [st EXCEPT ![r] = "done"]
                /\ body' = body
           [] branch = "submit" ->
                /\ res' = res1
                /\ st' = [st EXCEPT ![r] = "reading"]
                /\ body' = [body EXCEPT ![BodySlot(r)] = <<>>]
           [] OTHER ->
                /\ res' = res1
                /\ st' = [st EXCEPT ![r] = "file"]
                /\ body' = body
  /\ UNCHANGED << input, unsent, seen, saving, inserts, saveLog, rows, nextId, procVars >>

\* req.on('data', chunk => body += chunk): the next chunk, of any size
Data(r) ==
  /\ pc = "serving"
  /\ st[r] = "reading"
  /\ \E k \in 1..Len(unsent[r]) :
       /\ body' = [body EXCEPT ![BodySlot(r)] = @ \o SubSeq(unsent[r], 1, k)]
       /\ unsent' = [unsent EXCEPT ![r] = SubSeq(@, k + 1, Len(@))]
  /\ UNCHANGED << input, st, seen, res, saving, inserts, saveLog, rows, nextId, procVars >>

\* req.on('end', ...) up to `await saveContact(...)`, which issues the INSERT
End(r) ==
  /\ pc = "serving"
  /\ st[r] = "reading"
  /\ unsent[r] = <<>>
  /\ LET text == body[BodySlot(r)]
         d == SubmitDecision(text)
     IN  /\ seen' = [seen EXCEPT ![r] = << text >>]
         /\ IF d.kind = "reply"
            THEN /\ res' = Write(r, d)
                 /\ st' = [st EXCEPT ![r] = "done"]
                 /\ UNCHANGED << saving, inserts >>
            ELSE /\ saving' = [saving EXCEPT ![r] = d.args]
                 /\ inserts' = [inserts EXCEPT ![r] = @ + 1]
                 /\ st' = [st EXCEPT ![r] = "saving"]
                 /\ res' = res
  /\ UNCHANGED << input, unsent, body, saveLog, rows, nextId, procVars >>

Words == { <<"contacts", "email", "key">>, <<"contacts", "phone", "key">>,
           <<"contacts", "email", "phone", "key">>, <<"contacts", "pkey">> }

\* what the store can answer to the INSERT
StoreAnswers ==
  { [ok |-> TRUE, id |-> nextId, code |-> "", hasConstraint |-> FALSE,
     constraint |-> <<>>, text |-> ""] }
  \cup { [ok |-> FALSE, id |-> 0, code |-> UniqueViolation, hasConstraint |-> TRUE,
          constraint |-> w, text |-> RawDbText] : w \in Words }
  \cup { [ok |-> FALSE, id |-> 0, code |-> c, hasConstraint |-> FALSE,
          constraint |-> <<>>, text |-> RawDbText] : c \in {UniqueViolation, "42P01"} }

\* INSERT INTO contacts (name, email, phone, message) VALUES (..., phone || null, ...)
InsertedRow(id, args) ==
  [id |-> id, name |-> args.name, email |-> args.email,
   phone |-> args.phone, message |-> args.message]

\* the INSERT settles; saveContact returns; lines 273-275 answer
InsertComplete(r) ==
  /\ pc = "serving"
  /\ st[r] = "saving"
  /\ \E answer \in StoreAnswers :
       /\ rows' = IF answer.ok THEN Append(rows, InsertedRow(answer.id, saving[r]))
                  ELSE rows
       /\ nextId' = IF answer.ok \/ answer.code = UniqueViolation THEN nextId + 1
                    ELSE nextId
       /\ res' = Write(r, Forward(saveContact(answer)))
       /\ saveLog' = [saveLog EXCEPT ![r] = Append(@, answer)]
  /\ st' = [st EXCEPT ![r] = "done"]
  /\ UNCHANGED << input, unsent, body, seen, saving, inserts, procVars >>

\* serveStaticFile's fs.readFile callback (lines 33-42)
ReadComplete(r) ==
  /\ pc = "serving"
  /\ st[r] = "file"
  /\ \E err \in BOOLEAN :
       res' = Write(r,
         IF err THEN PlainReply(404, "text/plain", MsgNoFile)
         ELSE PlainReply(200,
                StaticType(Route(input[r].method, input[r].url), input[r].url),
                "content"))
  /\ st' = [st EXCEPT ![r] = "done"]
  /\ UNCHANGED << input, unsent, body, seen, saving, inserts, saveLog, rows, nextId,
                  procVars >>

NextHttp ==
  \/ \E r \in Reqs : Arrive(r)
  \/ \E r \in Reqs : Data(r)
  \/ \E r \in Reqs : End(r)
  \/ \E r \in Reqs : InsertComplete(r)
  \/ \E r \in Reqs : ReadComplete(r)

(*************************************************************************)
(* The store's schema and the statements createTable issues.  A          *)
(* statement's outcome is [ok, schema].                                  *)
(*************************************************************************)
LegacyCols == << "id", "name", "email", "phone", "message" >>
FullCols == << "id", "name", "email", "phone", "message", "created_at" >>
IdxEmail == "idx_contacts_email"
IdxCreatedAt == "idx_contacts_created_at"
FullSchema == [cols |-> FullCols, idx |-> {IdxEmail, IdxCreatedAt}]

HasColumn(cols, c) == \E i \in 1..Len(cols) : cols[i] = c

\* ALTER TABLE contacts ADD COLUMN created_at ...
AlterAddCreatedAt(sch) ==
  IF sch.cols = <<>> \/ HasColumn(sch.cols, "created_at")
  THEN [ok |-> FALSE, schema |-> sch]
  ELSE [ok |-> TRUE, schema |-> [sch EXCEPT !.cols = Append(@, "created_at")]]

\* CREATE TABLE IF NOT EXISTS contacts (...)
CreateTableIfNotExists(sch) ==
  [ok |-> TRUE,
   schema |-> IF sch.cols = <<>> THEN [sch EXCEPT !.cols = FullCols] ELSE sch]

\* CREATE INDEX IF NOT EXISTS name ON contacts(col)
CreateIndexIfNotExists(sch, name, col) ==
  IF sch.cols = <<>> \/ ~HasColumn(sch.cols, col)
  THEN [ok |-> FALSE, schema |-> sch]
  ELSE [ok |-> TRUE, schema |-> [sch EXCEPT !.idx = @ \cup {name}]]

\* checkTableStructure: the column list, or [] when the query fails
checkTableStructure(sch, fault) == IF fault THEN <<>> ELSE sch.cols

\* line 73 without the created_at test
UseAlter_m(existingColumns) == Len(existingColumns) > 0

\* line 73: !hasCreatedAt && existingColumns.length > 0
UseAlter(existingColumns) ==
  ~HasColumn(existingColumns, "created_at") /\ Len(existingColumns) > 0

(*************************************************************************)
(* Ports: process.env.PORT is a string of digits, the default a number.  *)
(*************************************************************************)
DefaultPort == 3000

NumPort(n) == [t |-> "num", n |-> n, s |-> <<>>]
StrPort(s) == [t |-> "str", n |-> 0, s |-> s]

\* process.env.PORT || 3000 : an unset or empty variable is falsy
ConfiguredPort(port) == IF port = <<>> THEN NumPort(DefaultPort) ELSE StrPort(port)

\* PORT + 1 : addition on a number, concatenation on a string
PlusOne(p) ==
  IF p.t = "str" THEN [p EXCEPT !.s = Append(@, "1")] ELSE [p EXCEPT !.n = @ + 1]

DigitValue(c) ==
  CASE c = "0" -> 0 [] c = "1" -> 1 [] c = "2" -> 2 [] c = "3" -> 3 [] c = "4" -> 4
    [] c = "5" -> 5 [] c = "6" -> 6 [] c = "7" -> 7 [] c = "8" -> 8 [] c = "9" -> 9

RECURSIVE DigitsValue(_)
DigitsValue(s) ==
  IF s = <<>> THEN 0
  ELSE 10 * DigitsValue(SubSeq(s, 1, Len(s) - 1)) + DigitValue(s[Len(s)])

\* the port number server.listen() binds for the value it is given
ToNumber(p) == IF p.t = "str" THEN DigitsValue(p.s) ELSE p.n

(*************************************************************************)
(* Process start: the configuration check, startServer.                  *)
(*************************************************************************)
\* lines 9-14
ConfigCheck ==
  /\ pc = "config"
  /\ IF env.dbUrl
     THEN pc' = "probe" /\ exitCode' = exitCode
     ELSE pc' = "exited" /\ exitCode' = 1
  /\ UNCHANGED << httpVars, schema, env, existing, probeRuns, probeLog, initRuns,
                  listenCalls, bindErrors, starts, faulted, schemaAfter >>

\* testConnection without its try/catch
testConnectionThrows_m(ok) == ~ok

\* testConnection (lines 20-28): whether it throws, given the probe's outcome
testConnectionThrows(ok) == FALSE

\* await testConnection(); a throw would land in startServer's catch (345-348)
TestConnection ==
  /\ pc = "probe"
  /\ \E ok \in BOOLEAN :
       /\ probeLog' = IF ok THEN "connected" ELSE "failed"
       /\ IF testConnectionThrows(ok)
          THEN pc' = "exited" /\ exitCode' = 1
          ELSE pc' = "check" /\ exitCode' = exitCode
  /\ probeRuns' = probeRuns + 1
  /\ UNCHANGED << httpVars, schema, env, existing, initRuns, listenCalls,
                  bindErrors, starts, faulted, schemaAfter >>

Fault(fault) == IF fault THEN faulted \cup {starts} ELSE faulted

\* createTable returns (normally or through its catch at 116-118)
CreateTableReturns(sch) ==
  /\ pc' = "listen"
  /\ initRuns' = initRuns + 1
  /\ schemaAfter' = Append(schemaAfter, sch)

\* line 68
CheckStructure ==
  /\ pc = "check"
  /\ \E fault \in BOOLEAN :
       /\ existing' = checkTableStructure(schema, fault)
       /\ faulted' = Fault(fault)
  /\ pc' = "ddl"
  /\ UNCHANGED << httpVars, schema, env, probeRuns, probeLog, initRuns, listenCalls,
                  bindErrors, exitCode, starts, schemaAfter >>

\* lines 73-95: ALTER or CREATE; a failure leaves createTable through its catch
Ddl ==
  /\ pc = "ddl"
  /\ \E fault \in BOOLEAN :
       LET out == IF fault THEN [ok |-> FALSE, schema |-> schema]
                  ELSE IF UseAlter(existing) THEN AlterAddCreatedAt(schema)
                  ELSE CreateTableIfNotExists(schema)
       IN  /\ schema' = out.schema
           /\ faulted' = Fault(fault)
           /\ IF out.ok
              THEN pc' = "idxEmail" /\ UNCHANGED << initRuns, schemaAfter >>
              ELSE CreateTableReturns(out.schema)
  /\ UNCHANGED << httpVars, env, existing, probeRuns, probeLog, listenCalls, bindErrors,
                  exitCode, starts >>

\* lines 98-103: a failure is caught and logged
IndexEmail ==
  /\ pc = "idxEmail"
  /\ \E fault \in BOOLEAN :
       /\ schema' = IF fault THEN schema
                    ELSE CreateIndexIfNotExists(schema, IdxEmail, "email").schema
       /\ faulted' = Fault(fault)
  /\ pc' = "idxCreatedAt"
  /\ UNCHANGED << httpVars, env, existing, probeRuns, probeLog, initRuns, listenCalls,
                  bindErrors, exitCode, starts, schemaAfter >>

\* lines 105-110
IndexCreatedAt ==
  /\ pc = "idxCreatedAt"
  /\ \E fault \in BOOLEAN :
       /\ schema' = IF fault THEN schema
                    ELSE CreateIndexIfNotExists(schema, IdxCreatedAt, "created_at").schema
       /\ faulted' = Fault(fault)
  /\ pc' = "verify"
  /\ UNCHANGED << httpVars, env, existing, probeRuns, probeLog, initRuns, listenCalls,
                  bindErrors, exitCode, starts, schemaAfter >>

\* lines 112-114: the final structure is only logged
Verify ==
  /\ pc = "verify"
  /\ \E fault \in BOOLEAN : faulted' = Fault(fault)
  /\ CreateTableReturns(schema)
  /\ UNCHANGED << httpVars, schema, env, existing, probeRuns, probeLog, listenCalls,
                  bindErrors, exitCode, starts >>

\* line 328: server.listen(PORT, ...)
Listen ==
  /\ pc = "listen"
  /\ listenCalls' = << ConfiguredPort(env.port) >>
  /\ pc' = "binding"
  /\ UNCHANGED << httpVars, schema, env, existing, probeRuns, probeLog, initRuns,
                  bindErrors, exitCode, starts, faulted, schemaAfter >>

\* the pending listen() succeeds
Bound ==
  /\ pc = "binding"
  /\ pc' = "serving"
  /\ UNCHANGED << httpVars, schema, env, existing, probeRuns, probeLog, initRuns,
                  listenCalls, bindErrors, exitCode, starts, faulted, schemaAfter >>

\* server.on('error', ...) at lines 312-326, the handler staying registered
BindError ==
  /\ pc = "binding"
  /\ \E code \in {"EADDRINUSE", "EACCES"} :
       /\ bindErrors' = Append(bindErrors, code)
       /\ IF code = "EADDRINUSE"
          THEN /\ Len(listenCalls) < MaxAttempts
               /\ listenCalls' = Append(listenCalls, PlusOne(ConfiguredPort(env.port)))
               /\ UNCHANGED << pc, exitCode >>
          ELSE /\ pc' = "exited"
               /\ exitCode' = 1
               /\ listenCalls' = listenCalls
  /\ UNCHANGED << httpVars, schema, env, existing, probeRuns, probeLog, initRuns,
                  starts, faulted, schemaAfter >>

\* the process is started again against the same database
Restart ==
  /\ pc \in {"serving", "exited"}
  /\ starts < MaxStarts
  /\ starts' = starts + 1
  /\ pc' = "config"
  /\ exitCode' = -1
  /\ existing' = <<>>
  /\ probeRuns' = 0
  /\ probeLog' = ""
  /\ initRuns' = 0
  /\ listenCalls' = <<>>
  /\ bindErrors' = <<>>
  /\ st' = [r \in Reqs |-> "new"]
  /\ unsent' = [r \in Reqs |-> input[r].text]
  /\ body' = [r \in Reqs |-> <<>>]
  /\ seen' = [r \in Reqs |-> <<>>]
  /\ res' = [r \in Reqs |-> [headers |-> {}, writes |-> <<>>]]
  /\ saving' = [r \in Reqs |-> NoArgs]
  /\ inserts' = [r \in Reqs |-> 0]
  /\ saveLog' = [r \in Reqs |-> <<>>]
  /\ UNCHANGED << input, rows, nextId, schema, env, faulted, schemaAfter >>

NextStart ==
  \/ ConfigCheck
  \/ TestConnection
  \/ CheckStructure
  \/ Ddl
  \/ IndexEmail
  \/ IndexCreatedAt
  \/ Verify
  \/ Listen
  \/ Bound
  \/ BindError
  \/ Restart

(*************************************************************************)
(* Inputs.                                                               *)
(*************************************************************************)
NameValues ==
  { Undefined, Null, Num(<<"5">>), Str(<<>>), Str(<<" ">>),
    Str(<<" ", "A", "b", " ">>), Str(<<"a">>) }

EmailValues ==
  { Undefined, Num(<<"5">>), Str(<<>>), Str(<<" ", "\n">>),
    Str(<<"a", "@", "b", ".", "c">>),
    Str(<<"A", "@", "B", ".", "c">>),
    Str(<<"a", ".", "b", "@", "c", ".", "a", ".", "b">>),
    Str(<<" ", "a", "@", "b", ".", "c">>),
    Str(<<"a", "@", "b", ".", "c", "\n">>),
    Str(<<"a", "b", ".", "c">>),
    Str(<<"a", "@", "b", "c">>),
    Str(<<"a", ".", "b", "@", "c">>),
    Str(<<"a", "@", " ", "b", ".", "c">>),
    Str(<<"a", "@", "b", "@", "c", ".", "a">>),
    Str(<<"@", "b", ".", "c">>),
    Str(<<"a", "@", ".", "c">>),
    Str(<<"a", "@", "b", ".">>) }

PhoneValues ==
  { Undefined, Null, Str(<<>>), Str(<<" ">>), Str(<<" ", "1", "2", " ">>),
    Num(<<"1", "2">>), Bool(<<"false">>) }

MessageValues ==
  { Undefined, Str(<<>>), Str(<<"\n">>), Str(<<" ", "m", "\n">>), Arr }

Docs ==
  [name : NameValues, email : EmailValues, phone : PhoneValues,
   message : MessageValues]

ValidDoc ==
  [name |-> Str(<<"a">>), email |-> Str(<<"A", "@", "B", ".", "c">>),
   phone |-> Undefined, message |-> Str(<<" ", "m", "\n">>)]

\* bodies that are not a serialized object of Docs
OddTexts ==
  { <<>>, << WsTok >>, << WsTok, WsTok >>,
    << ValTok(Null) >>, << WsTok, ValTok(Null), WsTok >>,
    << ValTok(Num(<<"5">>)) >>, << ValTok(Str(<<"a">>)) >>, << ValTok(Arr) >>,
    << Punct("}") >>, << Punct("{"), ValTok(Str(<<"name">>)), Punct(":") >>,
    << Punct("{"), ValTok(Str(<<"name">>)), Punct(":"), ValTok(Str(<<"a">>)) >>,
    << WsTok >> \o Serialize(ValidDoc) \o << WsTok >> }

Methods == { "GET", "POST", "OPTIONS", "PUT" }

Urls ==
  { << "/" >>, << "/", "css", "/", "a", ".css" >>, << "/", "css" >>,
    << "/", "js", "/", "a", ".js" >>, << "/", "images", "/", "a", ".png" >>,
    << "/", "images", "/", "a", ".bin" >>, << "/", "submit-contact" >>,
    << "/", "submit-contact", "/" >>, << "/", "nope" >> }

Request(method, url, text) == [method |-> method, url |-> url, text |-> text]

\* every method on every URL, and every body on the submission endpoint
RichInputs ==
  { Request(m, u, <<>>) : m \in Methods, u \in Urls }
  \cup { Request("POST", UrlSubmit, Serialize(d)) : d \in Docs }
  \cup { Request("POST", UrlSubmit, t) : t \in OddTexts }

SmallInputs ==
  { Request("GET", UrlRoot, <<>>),
    Request("OPTIONS", UrlSubmit, <<>>),
    Request("GET", << "/", "nope" >>, <<>>),
    Request("POST", UrlSubmit, << WsTok >>),
    Request("POST", UrlSubmit, << Punct("{"), Punct("}") >>),
    Request("POST", UrlSubmit, << Punct("{"), ValTok(Str(<<"name">>)), Punct(":") >>),
    Request("POST", UrlSubmit, Serialize(ValidDoc)) }

PortStrings == { <<>>, <<"3", "0", "0", "0">>, <<"5", "0", "0", "0">> }

\* the schemas createTable is written for: no table, the table without
\* created_at, the full table; each with the indexes it can carry
InitialSchemas ==
  { [cols |-> <<>>, idx |-> {}] }
  \cup { [cols |-> LegacyCols, idx |-> i] : i \in SUBSET {IdxEmail} }
  \cup { [cols |-> FullCols, idx |-> i] : i \in SUBSET {IdxEmail, IdxCreatedAt} }

(*************************************************************************)
(* Initial states and specifications.                                    *)
(*************************************************************************)
InitHttp(inputs) ==
  /\ input \in inputs
  /\ st = [r \in DOMAIN input |-> "new"]
  /\ unsent = [r \in DOMAIN input |-> input[r].text]
  /\ body = [r \in DOMAIN input |-> <<>>]
  /\ seen = [r \in DOMAIN input |-> <<>>]
  /\ res = [r \in DOMAIN input |-> [headers |-> {}, writes |-> <<>>]]
  /\ saving = [r \in DOMAIN input |-> NoArgs]
  /\ inserts = [r \in DOMAIN input |-> 0]
  /\ saveLog = [r \in DOMAIN input |-> <<>>]
  /\ rows = <<>>
  /\ nextId = 1

\* the process as it is started
InitStart ==
  /\ env \in [dbUrl : BOOLEAN, port : PortStrings]
  /\ schema \in InitialSchemas
  /\ pc = "config"
  /\ existing = <<>>
  /\ probeRuns = 0
  /\ probeLog = ""
  /\ initRuns = 0
  /\ listenCalls = <<>>
  /\ bindErrors = <<>>
  /\ exitCode = -1
  /\ starts = 1
  /\ faulted = {}
  /\ schemaAfter = <<>>

\* the process once it listens on the default port over the full schema
InitServing ==
  /\ env = [dbUrl |-> TRUE, port |-> <<>>]
  /\ schema = FullSchema
  /\ pc = "serving"
  /\ existing = FullCols
  /\ probeRuns = 1
  /\ probeLog = "connected"
  /\ initRuns = 1
  /\ listenCalls = << NumPort(DefaultPort) >>
  /\ bindErrors = <<>>
  /\ exitCode = -1
  /\ starts = 1
  /\ faulted = {}
  /\ schemaAfter = << FullSchema >>

StartInit == InitStart /\ InitHttp({ <<>> })

OneRequestInit == InitServing /\ InitHttp([{1} -> RichInputs])

ConcurrentInit == InitServing /\ InitHttp([1..MaxReq -> SmallInputs])

\* process start and restart, no traffic
SpecStart == StartInit /\ [][NextStart]_vars

\* process start under fair scheduling of its own steps (every awaited
\* promise settles, every listen() call is answered)
FairStart ==
  /\ SpecStart
  /\ WF_vars(ConfigCheck) /\ WF_vars(TestConnection) /\ WF_vars(CheckStructure)
  /\ WF_vars(Ddl) /\ WF_vars(IndexEmail) /\ WF_vars(IndexCreatedAt)
  /\ WF_vars(Verify) /\ WF_vars(Listen)

\* one request of any shape against the listening server
SpecHttp == OneRequestInit /\ [][NextHttp]_vars

\* MaxReq concurrent requests against the listening server
SpecConc == ConcurrentInit /\ [][NextHttp]_vars

\* the whole program: start, then one request
Init == InitStart /\ InitHttp([{1} -> SmallInputs])

Next == NextStart \/ NextHttp

Spec == Init /\ [][Next]_vars

(*************************************************************************)
(* Vocabulary of the properties, stated on what the client sent and on   *)
(* what it got back, independently of the handler's own operators.       *)
(*************************************************************************)
IsSubmit(r) == input[r].method = "POST" /\ input[r].url = UrlSubmit

Payload(r) == JSONParse(input[r].text)

Sent(r, key) == Field(Payload(r), key)

\* a string with at least one character that is not whitespace
NonBlank(v) == v.t = "str" /\ \E i \in 1..Len(v.s) : v.s[i] \notin WsChars

\* absent from the payload, or a string of whitespace only
MissingOrBlank(v) ==
  v.t = "undefined" \/ (v.t = "str" /\ \A i \in 1..Len(v.s) : v.s[i] \in WsChars)

AtPositions(s) == { i \in 1..Len(s) : s[i] = "@" }

\* local@domain.tld : no whitespace, one "@" after a non-empty local part, and
\* behind it a dot with something on both sides
ShapeRule(s) ==
  /\ \A i \in 1..Len(s) : s[i] \notin WsChars
  /\ Cardinality(AtPositions(s)) = 1
  /\ \E a \in AtPositions(s) :
       /\ a > 1
       /\ \E d \in (a + 2)..(Len(s) - 1) : s[d] = "."

ValidSubmission(r) ==
  /\ IsSubmit(r)
  /\ Payload(r).ok /\ Payload(r).t = "obj"
  /\ NonBlank(Sent(r, "name")) /\ NonBlank(Sent(r, "email"))
  /\ NonBlank(Sent(r, "message"))
  /\ ShapeRule(Sent(r, "email").s)

Answered(r) == st[r] = "done" /\ Len(res[r].writes) = 1

Answer(r) == res[r].writes[1]

IsJsonError(r, status, message) ==
  /\ Answered(r)
  /\ Answer(r).status = status
  /\ Answer(r).ctype = "application/json"
  /\ Answer(r).result = "error"
  /\ Answer(r).message = message

\* the row the claim expects for the payload, under the id the response carries
ExpectedRow(r) ==
  [id |-> Answer(r).id,
   name |-> Trim(Sent(r, "name").s),
   email |-> ToLowerCase(Trim(Sent(r, "email").s)),
   phone |-> IF NonBlank(Sent(r, "phone")) THEN Str(Trim(Sent(r, "phone").s)) ELSE Null,
   message |-> Trim(Sent(r, "message").s)]

\* the response forwards a refusal of the store
StoreRefused(r) ==
  Answered(r) /\ Answer(r).status = 200 /\ Answer(r).result = "error"

(*************************************************************************)
(* C1: every valid submission (non-blank name, email, message, e-mail    *)
(* of the right shape, phone of any kind) that the store accepts is      *)
(* answered 200 "success" with the positive id of the one row added,     *)
(* which carries the trimmed / lower-cased fields.                       *)
(*************************************************************************)
C1_ValidSubmissionStored ==
  \A r \in Reqs :
    (ValidSubmission(r) /\ st[r] = "done" /\ ~StoreRefused(r)) =>
       /\ Answered(r)
       /\ Answer(r).status = 200
       /\ Answer(r).result = "success"
       /\ Answer(r).id > 0
       /\ Len(rows) = 1
       /\ rows[1] = ExpectedRow(r)

(*************************************************************************)
(* C2: a non-blank body that parses as JSON and lacks a non-blank name,  *)
(* email or message is answered 400 with the required-fields message,    *)
(* whatever the JSON types of the payload and of its other fields.       *)
(*************************************************************************)
C2_MissingFieldIs400 ==
  \A r \in Reqs :
    ( /\ IsSubmit(r) /\ st[r] = "done"
      /\ ~IsBlankBody(input[r].text)
      /\ Payload(r).ok
      /\ \E key \in {"name", "email", "message"} : MissingOrBlank(Sent(r, key)) )
    => IsJsonError(r, 400, MsgRequired)

(*************************************************************************)
(* C3: with non-blank name, email and message, an e-mail that does not   *)
(* have the shape local@domain.tld is answered 400 with the invalid-     *)
(* e-mail message; and the required-fields check comes first: when the   *)
(* three fields are strings or absent and one is blank, the answer is    *)
(* the required-fields message whatever the e-mail looks like.           *)
(*************************************************************************)
C3_InvalidEmailIs400 ==
  \A r \in Reqs :
    (IsSubmit(r) /\ st[r] = "done" /\ Payload(r).ok /\ Payload(r).t = "obj") =>
      /\ ( /\ NonBlank(Sent(r, "name")) /\ NonBlank(Sent(r, "email"))
           /\ NonBlank(Sent(r, "message"))
           /\ ~ShapeRule(Sent(r, "email").s) )
         => IsJsonError(r, 400, MsgEmail)
      /\ ( /\ \A key \in {"name", "email", "message"} :
                NonBlank(Sent(r, key)) \/ MissingOrBlank(Sent(r, key))
           /\ \E key \in {"name", "email", "message"} : MissingOrBlank(Sent(r, key)) )
         => IsJsonError(r, 400, MsgRequired)

C3_Witness ==
  \E r \in Reqs :
    /\ IsSubmit(r) /\ Payload(r).ok /\ Payload(r).t = "obj"
    /\ NonBlank(Sent(r, "name")) /\ NonBlank(Sent(r, "message"))
    /\ NonBlank(Sent(r, "email")) /\ ~ShapeRule(Sent(r, "email").s)
    /\ \E i \in 1..Len(Sent(r, "email").s) : Sent(r, "email").s[i] = "@"
    /\ IsJsonError(r, 400, MsgEmail)

(*************************************************************************)
(* C4: saveContact turns every answer of the store into a result, which  *)
(* the handler forwards with HTTP 200 and never with the store's own     *)
(* error text.  As stated: a uniqueness violation on a constraint whose  *)
(* name contains "email" gives the e-mail message, one whose name        *)
(* contains "phone" the phone message, any other failure the generic one.*)
(*************************************************************************)
IsUnique(a, word) ==
  ~a.ok /\ a.code = UniqueViolation /\ a.hasConstraint /\ Includes(a.constraint, word)

Forwarded(r) ==
  /\ Answered(r)
  /\ Answer(r).status = 200
  /\ Answer(r).ctype = "application/json"
  /\ Answer(r).message # RawDbText
  /\ Answer(r).result = (IF saveLog[r][1].ok THEN "success" ELSE "error")

C4_AsClaimed ==
  \A r \in Reqs :
    saveLog[r] # <<>> =>
      LET a == saveLog[r][1]
      IN  /\ Forwarded(r)
          /\ IsUnique(a, "email") => Answer(r).message = MsgDupEmail
          /\ IsUnique(a, "phone") => Answer(r).message = MsgDupPhone
          /\ (~a.ok /\ ~IsUnique(a, "email") /\ ~IsUnique(a, "phone"))
               => Answer(r).message = MsgGeneric

\* C4, with the order of the two tests: the phone message is given when the
\* constraint's name contains "phone" and does not contain "email"; a name
\* with both gives the e-mail message.
C4_EmailTakesPrecedence ==
  \A r \in Reqs :
    saveLog[r] # <<>> =>
      LET a == saveLog[r][1]
      IN  /\ Forwarded(r)
          /\ IsUnique(a, "email") => Answer(r).message = MsgDupEmail
          /\ (IsUnique(a, "phone") /\ ~IsUnique(a, "email"))
               => Answer(r).message = MsgDupPhone
          /\ (~a.ok /\ ~IsUnique(a, "email") /\ ~IsUnique(a, "phone"))
               => Answer(r).message = MsgGeneric

C4_Witness ==
  \E r \in Reqs :
    /\ saveLog[r] # <<>>
    /\ IsUnique(saveLog[r][1], "phone") /\ IsUnique(saveLog[r][1], "email")
    /\ Answered(r) /\ Answer(r).status = 200 /\ Answer(r).message = MsgDupEmail

(*************************************************************************)
(* C5: on EADDRINUSE the server retries exactly once, on the configured  *)
(* port plus one as a number, whether the port is the default or comes   *)
(* from the environment; no further listen() follows a failed retry; any *)
(* other bind error ends the process.                                    *)
(*************************************************************************)
C5_RetryOnceOnNextPort ==
  /\ Len(listenCalls) <= 2
  /\ Len(listenCalls) >= 2 =>
       ToNumber(listenCalls[2]) = ToNumber(listenCalls[1]) + 1
  /\ (bindErrors # <<>> /\ bindErrors[Len(bindErrors)] # "EADDRINUSE") =>
       (pc = "exited" /\ exitCode = 1)

(*************************************************************************)
(* C6: createTable is idempotent over the schemas it is written for: a   *)
(* run in which the store executes every statement leaves the full       *)
(* table (each column once) with both indexes, every later run leaves    *)
(* the same schema, and no run ends the process.                         *)
(*************************************************************************)
C6_CreateTableIdempotent ==
  /\ \A k \in 1..Len(schemaAfter) :
       k \notin faulted =>
         /\ schemaAfter[k] = FullSchema
         /\ \A m \in k..Len(schemaAfter) : schemaAfter[m] = schemaAfter[k]
  /\ pc \in {"check", "ddl", "idxEmail", "idxCreatedAt", "verify", "listen"}
       => exitCode = -1

C6_Witness ==
  /\ Len(schemaAfter) = 2
  /\ faulted = {}
  /\ schemaAfter[1] = FullSchema /\ schemaAfter[2] = FullSchema
  /\ pc = "serving"

(*************************************************************************)
(* C7: in a process start the probe and then createTable each run once   *)
(* and to completion before listen() is called; listen() is called in    *)
(* every start that gets past the configuration check, whatever failed   *)
(* in the probe or in createTable; none of these failures ends the       *)
(* process.                                                              *)
(*************************************************************************)
C7_Order ==
  /\ probeRuns <= 1 /\ initRuns <= 1
  /\ initRuns = 1 => probeRuns = 1
  /\ pc \in {"check", "ddl", "idxEmail", "idxCreatedAt", "verify"} =>
       (probeRuns = 1 /\ initRuns = 0 /\ listenCalls = <<>>)
  /\ listenCalls # <<>> => (probeRuns = 1 /\ initRuns = 1)
  /\ exitCode # -1 =>
       \/ ~env.dbUrl
       \/ (bindErrors # <<>> /\ bindErrors[Len(bindErrors)] # "EADDRINUSE")

\* C7: the order holds in every state, and a start that reaches the probe
\* always reaches listen()
C7_ListenerAlwaysStarted ==
  /\ []C7_Order
  /\ (pc = "probe") ~> (listenCalls # <<>>)

C7_Witness ==
  /\ probeLog = "failed"
  /\ starts \in faulted
  /\ probeRuns = 1 /\ initRuns = 1
  /\ pc = "serving"

(*************************************************************************)
(* C8: the router decides on method and URL alone, first match first:    *)
(* OPTIONS on any path is answered 200 with an empty body; a request     *)
(* that is not GET /, not GET under /css/, /js/ or /images/ and not      *)
(* POST /submit-contact is answered 404 with the JSON "Page not found";  *)
(* every response of every branch carries the three CORS headers.        *)
(*************************************************************************)
IsStaticGet(r) ==
  /\ input[r].method = "GET"
  /\ \/ input[r].url = << "/" >>
     \/ \E dir \in {"css", "js", "images"} :
          /\ Len(input[r].url) >= 3
          /\ input[r].url[1] = "/" /\ input[r].url[2] = dir /\ input[r].url[3] = "/"

C8_Router ==
  \A r \in Reqs :
    /\ \A i \in 1..Len(res[r].writes) : CorsHeaders \subseteq res[r].writes[i].headers
    /\ st[r] # "new" =>
         /\ input[r].method = "OPTIONS" =>
              /\ Answered(r)
              /\ Answer(r).status = 200 /\ Answer(r).message = ""
              /\ Answer(r).result = "" /\ Answer(r).ctype = ""
         /\ (input[r].method # "OPTIONS" /\ ~IsStaticGet(r) /\ ~IsSubmit(r)) =>
              /\ IsJsonError(r, 404, MsgNotFound)
         /\ (input[r].method # "OPTIONS" /\ IsStaticGet(r)) => st[r] \in {"file", "done"}
         /\ (input[r].method # "OPTIONS" /\ IsSubmit(r)) => st[r] \notin {"file"}

C8_Witness ==
  \E r \in Reqs :
    /\ input[r].method = "POST" /\ input[r].url = << "/" >>
    /\ IsJsonError(r, 404, MsgNotFound)
    /\ CorsHeaders \subseteq Answer(r).headers

(*************************************************************************)
(* C9: an INSERT is issued only for a POST /submit-contact whose body    *)
(* passed the blank check, the parse, the required-fields check and the  *)
(* e-mail check; a request answered 400, 404 or 500 issued none; no      *)
(* request issues two; the table's rows carry non-empty name, email and  *)
(* message, and rows are only ever added.                                *)
(*************************************************************************)
C9_Gate ==
  /\ \A r \in Reqs :
       /\ inserts[r] <= 1
       /\ inserts[r] = 1 =>
            /\ ValidSubmission(r)
            /\ ~IsBlankBody(input[r].text)
            /\ st[r] \in {"saving", "done"}
       /\ (res[r].writes # <<>> /\ res[r].writes[1].status \in {400, 404, 500}) =>
            inserts[r] = 0
  /\ \A i \in 1..Len(rows) :
       rows[i].name # <<>> /\ rows[i].email # <<>> /\ rows[i].message # <<>>

\* C9: the gate holds in every state, and every step leaves the existing
\* rows as they are, adding one only when a validated INSERT settles
C9_OnlyValidatedInserts ==
  /\ []C9_Gate
  /\ [][ /\ Len(rows') >= Len(rows)
         /\ SubSeq(rows', 1, Len(rows)) = rows
         /\ Len(rows') > Len(rows) =>
              \E r \in Reqs : st[r] = "saving" /\ st'[r] = "done" /\ inserts[r] = 1 ]_vars

C9_Witness ==
  \E r \in Reqs :
    /\ inserts[r] = 1 /\ st[r] = "done"
    /\ Len(rows) = 1 /\ rows[1].name = Trim(Sent(r, "name").s)
    /\ \E q \in (1..Len(Sent(r, "name").s)) : Sent(r, "name").s[q] \in WsChars

(*************************************************************************)
(* C10: under any interleaving of the requests' events each request is   *)
(* answered at most once, and exactly once when its events have all      *)
(* arrived; a submission is answered only after its body has ended and   *)
(* from its own complete body: the accumulated body of a request is      *)
(* always the part of its own body delivered so far.                     *)
(*************************************************************************)
C10_Isolation ==
  \A r \in Reqs :
    /\ Len(res[r].writes) <= 1
    /\ st[r] = "done" <=> Len(res[r].writes) = 1
    /\ IsSubmit(r) =>
         /\ st[r] \in {"reading", "saving", "done"} =>
              body[r] \o unsent[r] = input[r].text
         /\ res[r].writes # <<>> => (unsent[r] = <<>> /\ seen[r] # <<>>)
         /\ seen[r] # <<>> => seen[r] = << input[r].text >>

C10_Witness ==
  \E r1 \in Reqs : \E r2 \in Reqs :
    /\ r1 # r2
    /\ IsSubmit(r1) /\ IsSubmit(r2)
    /\ input[r1].text # input[r2].text
    /\ input[r1].text # <<>> /\ input[r2].text # <<>>
    /\ Answered(r1) /\ Answered(r2)
    /\ seen[r1] = << input[r1].text >> /\ seen[r2] = << input[r2].text >>

=============================================================================
